---- MODULE Spec2Model ----
(***************************************************************************)
(* Order creation, inventory reservation, referral commissions and the     *)
(* order lifecycle of the e-commerce backend, in its two schema variants:  *)
(*   - the graph-walk variant  (handlers/create_order.ts, db/schema.ts,    *)
(*     handlers/update_inventory.ts), prefix Gw / gw;                      *)
(*   - the referral-code variant (handlers/order_handlers.ts and the       *)
(*     distributor handlers), no prefix.                                   *)
(* Each handler runs to completion in one action.  Money is kept in        *)
(* integers: cents for numeric(10,2) columns, finer units for the          *)
(* JavaScript numbers the handlers compute before they are stored.         *)
(***************************************************************************)
EXTENDS Integers, Sequences, FiniteSets, TLC

\* ------------------------------------------------------------------ bounds
GwMaxOrders == 1    \* orders a behaviour creates in the graph-walk variant
MaxOrders == 1      \* orders a behaviour creates in the referral-code variant
MaxItems == 2       \* line items of one createOrder request
MaxQty == 2         \* largest quantity of one line item
MaxStock == 3       \* updateInventory never raises a stock above this
InitStock == 2      \* stock of the physical products in the initial catalog
MaxWrites == 6      \* database writes of one createOrder call
MaxLedgerOrders == 2    \* orders a behaviour of the commission ledger creates
MaxCommissions == 3     \* commission rows a behaviour of the commission ledger holds
MaxUsers == 5            \* user rows, the three initial ones included
MaxEarnings == 450       \* cents credited to one distributor

\* SQL NULL / JavaScript null in a numeric or id position (ids and amounts are >= 0)
Null == 0 - 1
\* SQL NULL in a text position
NullText == "NULL"

VARIABLES
    variant,                \* which of the two schema variants is deployed
    gwUsers,                \* graph-walk variant: usersTable
    gwProducts,             \*   productsTable
    gwOrders,               \*   ordersTable
    gwOrderItems,           \*   orderItemsTable
    gwReferralCommissions,  \*   referralCommissionsTable
    users,                  \* referral-code variant: usersTable (ids)
    addresses,              \*   addressesTable
    products,               \*   productsTable
    orders,                 \*   ordersTable
    orderItems,             \*   orderItemsTable
    distributors,           \*   distributorsTable
    commissions,            \*   commissionsTable
    call,                   \* the last handler call: operation, outcome, facts about its input
    procs                   \* the handler calls in flight: position and local variables

gwTables == <<gwUsers, gwProducts, gwOrders, gwOrderItems, gwReferralCommissions>>
rcTables == <<users, addresses, products, orders, orderItems, distributors, commissions>>
vars == <<variant, gwTables, rcTables, call, procs>>

\* ------------------------------------------------------------ pure helpers
Min(S) == CHOOSE x \in S : \A y \in S : x <= y

RECURSIVE SumSeq(_)
SumSeq(s) == IF s = <<>> THEN 0 ELSE Head(s) + SumSeq(Tail(s))

RECURSIVE SelectIdx(_, _)
\* the rows of table t (a sequence) whose index is in S, in table order
SelectIdx(t, S) ==
    IF t = <<>> THEN <<>>
    ELSE LET rest == SelectIdx(SubSeq(t, 1, Len(t) - 1), S)
         IN IF Len(t) \in S THEN Append(rest, t[Len(t)]) ELSE rest

\* A JavaScript number written with toString() into a numeric(p,2) column.
\* x is the number in units of 1/unit cent; the column keeps whole cents and
\* rounds to nearest.  On an exact half the binary floating-point product
\* may lie on either side, so the direction is the input tieUp.
ToNumeric2(x, unit, tieUp) ==
    LET q == x \div unit
        r == x % unit
    IN IF 2 * r > unit THEN q + 1
       ELSE IF 2 * r < unit THEN q
       ELSE IF tieUp THEN q + 1 ELSE q

\* ------------------------------------------------ graph-walk variant: data
GwProductIds == 1..3
GwMissingProduct == 4
GwUserIds == 1..3
GwMissingUser == 4
GwLevel1Percent == 5
GwLevel2Percent == 3

GwItems == [product_id : GwProductIds \cup {GwMissingProduct}, quantity : 1..MaxQty]
\* items is z.array(...) with no minimum length: the empty list is a request too
GwItemLists == UNION {[1..n -> GwItems] : n \in 0..MaxItems}
ShippingAddresses == {"456 Another Street"}

GwInit ==
    /\ gwUsers = [u \in GwUserIds |->
            CASE u = 1 -> [email |-> "u1@example.com",
                           referrer_id |-> 2, secondary_referrer_id |-> 3]
              [] u = 2 -> [email |-> "u2@example.com",
                           referrer_id |-> 3, secondary_referrer_id |-> Null]
              [] OTHER -> [email |-> "u3@example.com",
                           referrer_id |-> Null, secondary_referrer_id |-> Null]]
    /\ gwProducts = [p \in GwProductIds |->
            CASE p = 1 -> [type |-> "physical", price |-> 3333,
                           stock_quantity |-> InitStock, is_enabled |-> TRUE]
              [] p = 2 -> [type |-> "virtual", price |-> 1010,
                           stock_quantity |-> 0, is_enabled |-> TRUE]
              [] OTHER -> [type |-> "physical", price |-> 2999,
                           stock_quantity |-> 1, is_enabled |-> FALSE]]
    /\ gwOrders = <<>>
    /\ gwOrderItems = <<>>
    /\ gwReferralCommissions = <<>>

\* --------------------------------------- facts about a request (for `call')
\* What a createOrder request of the graph-walk variant looks like against
\* the catalog and the users it meets; recorded in call.facts.
GwFacts(u, items) ==
    LET known(i) == items[i].product_id \in DOMAIN gwProducts
        prod(i) == gwProducts[items[i].product_id]
    IN  {"bad" : i \in {j \in DOMAIN items : ~known(j) \/ ~prod(j).is_enabled}}
        \cup {"valid" : i \in {j \in DOMAIN items : known(j) /\ prod(j).is_enabled}}
        \cup {"over" : i \in {j \in DOMAIN items :
                  known(j) /\ prod(j).type = "physical"
                  /\ items[j].quantity > prod(j).stock_quantity}}
        \cup {"dup" : i \in {j \in DOMAIN items :
                  \E k \in DOMAIN items : k # j /\ items[k].product_id = items[j].product_id}}
        \cup {"fitsFirst" : i \in {j \in DOMAIN items :
                  j = 1 /\ known(j) /\ items[j].quantity <= prod(j).stock_quantity}}
        \cup {"noUser" : x \in {u} \ DOMAIN gwUsers}
        \cup {"empty" : x \in {items} \cap {<<>>}}

\* What an accepted request looks like; recorded in call.shape.
GwShape(items) ==
    LET prod(i) == gwProducts[items[i].product_id]
    IN  {"virtualAtZero" : i \in {j \in DOMAIN items :
                  prod(j).type = "virtual" /\ prod(j).stock_quantity = 0}}
        \cup {"physical" : i \in {j \in DOMAIN items : prod(j).type = "physical"}}

\* ------------------------------------- graph-walk variant: createOrder
\* SELECT * FROM products WHERE id IN (productIds) AND is_enabled: a set of rows
GwSelectEnabled(items) ==
    {p \in DOMAIN gwProducts :
        gwProducts[p].is_enabled /\ \E i \in DOMAIN items : items[i].product_id = p}

\* products.length !== productIds.length  ->  'Some products are not available or disabled'
\* a weaker availability check: passes as soon as one requested product is enabled
GwSomeAvailable(items) == GwSelectEnabled(items) # {}

GwAllAvailable(items) == Cardinality(GwSelectEnabled(items)) = Len(items)

\* the per-item check of the pricing loop: does item i throw?
GwItemThrows(items, i) ==
    \/ items[i].product_id \notin GwSelectEnabled(items)
    \/ /\ gwProducts[items[i].product_id].type = "physical"
       /\ gwProducts[items[i].product_id].stock_quantity < items[i].quantity

\* the error of the first item of the loop that throws, "ok" when none does
GwLoopError(items) ==
    LET failing == {i \in DOMAIN items : GwItemThrows(items, i)}
    IN IF failing = {} THEN "ok"
       ELSE IF items[Min(failing)].product_id \notin GwSelectEnabled(items)
            THEN "ProductNotFound"
            ELSE "InsufficientInventory"

\* unitPrice = parseFloat(product.price); totalPrice = unitPrice * item.quantity  (cents)
GwTotalPrice(item) == gwProducts[item.product_id].price * item.quantity

\* totalAmount += totalPrice  (cents)
GwTotalAmount(items) == SumSeq([i \in DOMAIN items |-> GwTotalPrice(items[i])])

\* if (userData.referrer_id) { select referrer; if found ... }
GwReferrer(u) ==
    LET r == gwUsers[u].referrer_id
    IN IF r # Null /\ r # 0 /\ r \in DOMAIN gwUsers THEN r ELSE Null

\* a lookup that never finds a secondary referrer
GwNoSecondaryReferrer(u) == Null

GwSecondaryReferrer(u) ==
    LET r == gwUsers[u].secondary_referrer_id
    IN IF r # Null /\ r # 0 /\ r \in DOMAIN gwUsers THEN r ELSE Null

\* referralFeeLevel = totalAmount * 0.05 (0.03), written to a numeric(10,2) column;
\* total is in cents, total * percent in 1/100 cent
GwReferralFee(total, percent, tieUp) == ToNumeric2(total * percent, 100, tieUp)

\* a stock step without the product type test
GwUpdatesEveryItem(item) == TRUE

\* step 6: if (item.product.type === 'physical') update the stock
GwUpdatesInventory(item) == gwProducts[item.product_id].type = "physical"

\* stock_quantity: item.product.stock_quantity - item.quantity, from the row read in step 1
GwNewStock(item) == gwProducts[item.product_id].stock_quantity - item.quantity

\* some referral fee of the request falls on an exact half cent
GwHasTie(u, items) ==
    /\ \/ GwReferrer(u) # Null /\ (GwTotalAmount(items) * GwLevel1Percent) % 100 = 50
       \/ GwSecondaryReferrer(u) # Null /\ (GwTotalAmount(items) * GwLevel2Percent) % 100 = 50

\* The database writes of steps 4-7, in the order the handler awaits them.
GwWrites(u, items, addr, tieUp) ==
    LET total == GwTotalAmount(items)
        id == Len(gwOrders) + 1
        ref1 == GwReferrer(u)
        ref2 == GwSecondaryReferrer(u)
        fee1 == IF ref1 # Null THEN GwReferralFee(total, GwLevel1Percent, tieUp) ELSE Null
        fee2 == IF ref2 # Null THEN GwReferralFee(total, GwLevel2Percent, tieUp) ELSE Null
        order == [id |-> id, user_id |-> u, status |-> "pending",
                  total_amount |-> ToNumeric2(total, 1, tieUp),
                  referral_fee_level_1 |-> fee1, referral_fee_level_2 |-> fee2,
                  shipping_address |-> addr]
        itemRows == [i \in DOMAIN items |->
                        [order_id |-> id, product_id |-> items[i].product_id,
                         quantity |-> items[i].quantity,
                         unit_price |-> ToNumeric2(gwProducts[items[i].product_id].price, 1, tieUp),
                         total_price |-> ToNumeric2(GwTotalPrice(items[i]), 1, tieUp)]]
        physical == {i \in DOMAIN items : GwUpdatesInventory(items[i])}
        stockWrites == [i \in DOMAIN SelectIdx(items, physical) |->
                        LET it == SelectIdx(items, physical)[i]
                        IN [kind |-> "stock", product_id |-> it.product_id,
                            stock_quantity |-> GwNewStock(it)]]
        comm1 == IF ref1 # Null
                 THEN <<[distributor_id |-> ref1, order_id |-> id, level |-> 1,
                         commission_percentage |-> GwLevel1Percent,
                         commission_amount |-> fee1]>>
                 ELSE <<>>
        comm2 == IF ref2 # Null
                 THEN <<[distributor_id |-> ref2, order_id |-> id, level |-> 2,
                         commission_percentage |-> GwLevel2Percent,
                         commission_amount |-> fee2]>>
                 ELSE <<>>
    IN  <<[kind |-> "order", row |-> order], [kind |-> "items", rows |-> itemRows]>>
        \o stockWrites
        \o (IF comm1 \o comm2 = <<>> THEN <<>>
            ELSE <<[kind |-> "commissions", rows |-> comm1 \o comm2]>>)

\* one awaited statement applied to the tables
GwApply(db, w) ==
    CASE w.kind = "order" -> [db EXCEPT !.orders = Append(@, w.row)]
      [] w.kind = "items" -> [db EXCEPT !.items = @ \o w.rows]
      [] w.kind = "stock" ->
            [db EXCEPT !.products[w.product_id].stock_quantity = w.stock_quantity]
      [] OTHER -> [db EXCEPT !.commissions = @ \o w.rows]

RECURSIVE GwApplyAll(_, _)
GwApplyAll(db, ws) == IF ws = <<>> THEN db ELSE GwApplyAll(GwApply(db, Head(ws)), Tail(ws))

GwDb == [products |-> gwProducts, orders |-> gwOrders, items |-> gwOrderItems,
         commissions |-> gwReferralCommissions]

\* what `call' keeps of the state before the call
GwBefore == [stock |-> [p \in DOMAIN gwProducts |-> gwProducts[p].stock_quantity],
             earnings |-> <<>>]

\* The handler's outcome: the error it throws ("ok" for none) and the tables it
\* leaves.  failAt = k > 0: the k-th write is rejected by the database and the
\* handler rethrows; there is no transaction, so the writes before it stay.
GwCreateOrderOutcome(u, items, addr, tieUp, failAt) ==
    IF ~GwAllAvailable(items) THEN [result |-> "NotAvailable", db |-> GwDb]
    ELSE IF GwLoopError(items) # "ok" THEN [result |-> GwLoopError(items), db |-> GwDb]
    ELSE IF u \notin DOMAIN gwUsers THEN [result |-> "UserNotFound", db |-> GwDb]
    ELSE LET ws == GwWrites(u, items, addr, tieUp)
         IN IF failAt = 0 \/ failAt > Len(ws)
            THEN [result |-> "ok", db |-> GwApplyAll(GwDb, ws)]
            ELSE [result |-> "StorageError",
                  db |-> GwApplyAll(GwDb, SubSeq(ws, 1, failAt - 1))]

\* The outcomes of a request with no items.  inArray(productsTable.id, []) throws
\* in some releases of the query builder and matches no row in others; in the
\* latter the handler goes on to insert the order and then fails in
\* insert(orderItemsTable).values([]), which rejects an empty list.
GwEmptyOutcomes(u, addr) ==
    {[result |-> "EmptyInArray", db |-> GwDb]}
    \cup (IF u \notin DOMAIN gwUsers THEN {[result |-> "UserNotFound", db |-> GwDb]}
          ELSE {[result |-> "EmptyValues",
                 db |-> GwApply(GwDb, GwWrites(u, <<>>, addr, TRUE)[1])]})

Gw_createOrder(u, items, addr, tieUp, failAt) ==
    /\ variant = "graph-walk"
    /\ Len(gwOrders) < GwMaxOrders
    /\ \E out \in (IF items = <<>> THEN GwEmptyOutcomes(u, addr)
                   ELSE {GwCreateOrderOutcome(u, items, addr, tieUp, failAt)}) :
          /\ failAt > 0 => out.result = "StorageError"
          /\ tieUp \/ (out.result \in {"ok", "StorageError"} /\ GwHasTie(u, items))
          /\ gwProducts' = out.db.products
          /\ gwOrders' = out.db.orders
          /\ gwOrderItems' = out.db.items
          /\ gwReferralCommissions' = out.db.commissions
          /\ call' = [op |-> "Gw_createOrder", result |-> out.result,
                      id |-> IF out.result = "ok" THEN Len(gwOrders) + 1 ELSE 0,
                      facts |-> GwFacts(u, items),
                      shape |-> IF out.result = "ok" THEN GwShape(items) ELSE {},
                      before |-> GwBefore, changed |-> out.db # GwDb]
    /\ UNCHANGED <<variant, procs, gwUsers, rcTables>>

\* a field the caller left out of the input (undefined)
Absent == "ABSENT"

\* ----------------------------------------------------------- updateOrder
GwMissingOrder == GwMaxOrders + 1

UpdateOrderStatuses == {Absent, "processing"}

UpdateOrderAddresses == {Absent, NullText, "New Address"}

\* the object the handler resolves with: built from the input alone
\* (input.status || 'pending', input.shipping_address || null, user_id 0,
\* total_amount 0, null fees)
updateOrderReturned(id, status, shipping_address) ==
    [id |-> id, user_id |-> 0,
     status |-> IF status = Absent THEN "pending" ELSE status,
     total_amount |-> 0,
     referral_fee_level_1 |-> Null, referral_fee_level_2 |-> Null,
     shipping_address |-> IF shipping_address \in {Absent, NullText, ""}
                          THEN NullText ELSE shipping_address]

\* the handler reads and writes no table and never throws
updateOrder(id, status, shipping_address) ==
    /\ variant = "graph-walk"
    /\ call' = [op |-> "updateOrder", result |-> "ok", id |-> id,
                facts |-> {}, shape |-> {}, before |-> GwBefore, changed |-> FALSE,
                input |-> [status |-> status, shipping_address |-> shipping_address],
                returned |-> updateOrderReturned(id, status, shipping_address)]
    /\ UNCHANGED <<variant, procs, gwTables, rcTables>>

\* ------------------------------------------------------------ createUser
Emails == {"u1@example.com", "a@example.com", "b@example.com"}

\* input.referrer_id: null (or left out, which reads the same), 0, the id of a
\* user row or of none
ReferrerInputs == {Null, 0} \cup (1..(MaxUsers + 1))

\* let referrer_id = input.referrer_id || null
createUserReferrer(referrer_id) ==
    IF referrer_id \in {Null, 0} THEN Null ELSE referrer_id

\* secondary_referrer_id: the referrer's own referrer_id when it is truthy
createUserSecondary(referrer_id) ==
    IF referrer_id = Null THEN Null
    ELSE LET r == gwUsers[referrer_id].referrer_id
         IN IF r # Null /\ r # 0 THEN r ELSE Null

\* the error the call throws ("ok" for none): the referrer lookup, then the
\* insert, which the unique constraint on email may reject
createUserResult(email, referrer_id) ==
    LET r == createUserReferrer(referrer_id)
    IN IF r # Null /\ r \notin DOMAIN gwUsers THEN "ReferrerNotFound"
       ELSE IF \E u \in DOMAIN gwUsers : gwUsers[u].email = email THEN "EmailTaken"
       ELSE "ok"

\* user ids are the positions of the rows
createUser(email, referrer_id) ==
    /\ variant = "graph-walk"
    /\ LET result == createUserResult(email, referrer_id)
           r == createUserReferrer(referrer_id)
       IN /\ gwUsers' = IF result = "ok"
                        THEN Append(gwUsers, [email |-> email, referrer_id |-> r,
                                              secondary_referrer_id |-> createUserSecondary(r)])
                        ELSE gwUsers
          /\ call' = [op |-> "createUser", result |-> result,
                      id |-> IF result = "ok" THEN Len(gwUsers) + 1 ELSE 0,
                      facts |-> {}, shape |-> {}, before |-> GwBefore,
                      changed |-> result = "ok",
                      input |-> [email |-> email, referrer_id |-> referrer_id]]
    /\ UNCHANGED <<variant, procs, gwProducts, gwOrders, gwOrderItems, gwReferralCommissions,
                   rcTables>>

\* ------------------------------------------------------- updateInventory
QuantityChanges == (0 - MaxStock - 1)..MaxStock

\* a check that also refuses a change that empties the stock
updateInventoryRejectsZero(product_id, quantity_change) ==
    IF product_id \notin DOMAIN gwProducts THEN "ProductNotFound"
    ELSE IF gwProducts[product_id].stock_quantity + quantity_change <= 0
         THEN "InsufficientInventory"
         ELSE "ok"

\* the error updateInventory throws, "ok" when it writes
updateInventoryResult(product_id, quantity_change) ==
    IF product_id \notin DOMAIN gwProducts THEN "ProductNotFound"
    ELSE IF gwProducts[product_id].stock_quantity + quantity_change < 0
         THEN "InsufficientInventory"
         ELSE "ok"

updateInventory(product_id, quantity_change) ==
    /\ variant = "graph-walk"
    /\ LET result == updateInventoryResult(product_id, quantity_change)
           newStock == gwProducts[product_id].stock_quantity + quantity_change
       IN /\ result = "ok" => newStock <= MaxStock
          /\ gwProducts' = IF result = "ok"
                           THEN [gwProducts EXCEPT ![product_id].stock_quantity = newStock]
                           ELSE gwProducts
          /\ call' = [op |-> "updateInventory", result |-> result, id |-> product_id,
                      facts |-> {}, shape |-> {}, before |-> GwBefore,
                      changed |-> result = "ok" /\ quantity_change # 0,
                      input |-> [quantity_change |-> quantity_change]]
    /\ UNCHANGED <<variant, procs, gwUsers, gwOrders, gwOrderItems, gwReferralCommissions, rcTables>>

\* ============================================ referral-code variant: data
UserIds == 1..3
MissingUser == 4
AddressIds == {1}
MissingAddress == 2
ProductIds == 1..3
MissingProduct == 4
MissingOrder == 9
ShippingFee == 1000         \* shippingFee = 10.00, in cents
DiscountAmount == 0         \* discountAmount = 0
\* unit_price is z.number().positive(): the caller may send a price that is not a
\* whole number of cents.  Caller-supplied prices are in mills (1/10 cent).
UnitPrices == {4, 1000}
ReferralCodes == {NullText, "REF001", "REF002", "NOCODE"}
OrderStatuses == {"pending", "paid", "processing", "shipped", "delivered",
                  "cancelled", "refunded"}

\* line items: every product at a whole-cent price, and the in-stock physical
\* product also at the sub-cent price
Items == [product_id : ProductIds, quantity : 1..MaxQty, unit_price : {1000}]
         \cup [product_id : {MissingProduct}, quantity : {1}, unit_price : {1000}]
         \cup [product_id : {1}, quantity : {MaxQty}, unit_price : UnitPrices]
\* items is z.array(...) with no minimum length: the empty list is a request too
ItemLists == UNION {[1..n -> Items] : n \in 0..MaxItems}

RcInit ==
    /\ users = UserIds
    /\ addresses = [a \in AddressIds |->
            [user_id |-> 1,
             recipient_name |-> "John Doe", street_address |-> "123 Test Street"]]
    /\ products = [p \in ProductIds |->
            CASE p = 1 -> [product_type |-> "physical", stock_quantity |-> InitStock,
                           is_active |-> TRUE]
              [] p = 2 -> [product_type |-> "virtual", stock_quantity |-> 1,
                           is_active |-> TRUE]
              [] OTHER -> [product_type |-> "physical", stock_quantity |-> 1,
                           is_active |-> FALSE]]
    /\ orders = <<>>
    /\ orderItems = <<>>
    /\ distributors = [d \in 1..2 |->
            CASE d = 1 -> [user_id |-> 2, referral_code |-> "REF001",
                           commission_rate |-> 1000, total_earnings |-> 0,
                           status |-> "active"]
              [] OTHER -> [user_id |-> 3, referral_code |-> "REF002",
                           commission_rate |-> 500, total_earnings |-> 0,
                           status |-> "suspended"]]
    /\ commissions = <<>>

\* What a createOrder request of the referral-code variant looks like against
\* the tables it meets; recorded in call.facts.
RcFacts(u, a, code, items) ==
    LET known(i) == items[i].product_id \in DOMAIN products
        prod(i) == products[items[i].product_id]
    IN  {"noUser" : x \in {u} \ users}
        \cup {"noAddress" : x \in {a} \ DOMAIN addresses}
        \cup {"missing" : i \in {j \in DOMAIN items : ~known(j)}}
        \cup {"over" : i \in {j \in DOMAIN items :
                  known(j) /\ prod(j).product_type = "physical"
                  /\ items[j].quantity > prod(j).stock_quantity}}
        \cup {"virtualOver" : i \in {j \in DOMAIN items :
                  known(j) /\ prod(j).product_type = "virtual"
                  /\ items[j].quantity > prod(j).stock_quantity}}
        \cup {"fitsFirst" : i \in {j \in DOMAIN items :
                  j = 1 /\ known(j) /\ items[j].quantity <= prod(j).stock_quantity}}
        \cup {"empty" : x \in {items} \cap {<<>>}}

\* What an accepted request looks like; recorded in call.shape.
RcShape(code, items) ==
    LET prod(i) == products[items[i].product_id]
    IN  {"inactive" : i \in {j \in DOMAIN items : ~prod(j).is_active}}
        \cup {"virtual" : i \in {j \in DOMAIN items : prod(j).product_type = "virtual"}}
        \cup {"physical" : i \in {j \in DOMAIN items : prod(j).product_type = "physical"}}
        \cup {"dup" : i \in {j \in DOMAIN items :
                  \E k \in DOMAIN items : k # j /\ items[k].product_id = items[j].product_id}}
        \cup {"subCent" : i \in {j \in DOMAIN items : items[j].unit_price % 10 # 0}}
        \cup {"code_" \o x : x \in {code} \ {NullText}}

\* ============================== referral-code variant: createOrder
\* `${recipient_name}, ${street_address}, ...`.trim(): the denormalized address text
ShippingAddressText(a) ==
    addresses[a].recipient_name \o ", " \o addresses[a].street_address

\* a validation loop without the stock comparison
ItemMissing(items, i) == items[i].product_id \notin DOMAIN products

\* the per-item check of the validation loop: does item i throw?
ItemThrows(items, i) ==
    \/ items[i].product_id \notin DOMAIN products
    \/ products[items[i].product_id].stock_quantity < items[i].quantity

\* the error of the first item of the loop that throws, "ok" when none does
LoopError(items) ==
    LET failing == {i \in DOMAIN items : ItemThrows(items, i)}
    IN IF failing = {} THEN "ok"
       ELSE IF items[Min(failing)].product_id \notin DOMAIN products
            THEN "ProductNotFound"
            ELSE "InsufficientStock"

\* itemTotal = item.quantity * item.unit_price  (mills)
ItemTotal(item) == item.quantity * item.unit_price

\* totalAmount += itemTotal  (mills)
TotalAmount(items) == SumSeq([i \in DOMAIN items |-> ItemTotal(items[i])])

\* finalAmount = totalAmount + shippingFee - discountAmount  (mills)
FinalAmount(items) == TotalAmount(items) + 10 * ShippingFee - 10 * DiscountAmount

\* a lookup that takes the distributor of the code whatever its status
CommissionDistributorAnyStatus(code) ==
    LET found == {d \in DOMAIN distributors : distributors[d].referral_code = code}
    IN IF code # NullText /\ code # "" /\ found # {} THEN Min(found) ELSE Null

\* the distributor the referral code earns a commission for, Null for none
CommissionDistributor(code) ==
    LET found == {d \in DOMAIN distributors : distributors[d].referral_code = code}
    IN IF code # NullText /\ code # "" /\ found # {}
          /\ distributors[Min(found)].status = "active"
       THEN Min(found) ELSE Null

\* commissionAmount = finalAmount * parseFloat(commission_rate), written to numeric(10,2);
\* final is in mills and the rate in 1/10000, the product in 1/100000 cent
CommissionAmount(final, rate, tieUp) == ToNumeric2(final * rate, 100000, tieUp)

\* some computed amount of the request falls on an exact half cent
HasTie(items, code) ==
    \/ TotalAmount(items) % 10 = 5
    \/ \E i \in DOMAIN items : ItemTotal(items[i]) % 10 = 5
    \/ /\ CommissionDistributor(code) # Null
       /\ (FinalAmount(items) * distributors[CommissionDistributor(code)].commission_rate)
             % 100000 = 50000

\* for (const item of validatedItems): insert the order item, then update the stock
RECURSIVE ItemWrites(_, _, _)
ItemWrites(id, items, tieUp) ==
    IF items = <<>> THEN <<>>
    ELSE <<[kind |-> "item",
            row |-> [order_id |-> id, product_id |-> Head(items).product_id,
                     quantity |-> Head(items).quantity,
                     unit_price |-> ToNumeric2(Head(items).unit_price, 10, TRUE),
                     total_price |-> ToNumeric2(ItemTotal(Head(items)), 10, tieUp)]],
           [kind |-> "stock", product_id |-> Head(items).product_id,
            quantity |-> Head(items).quantity]>>
         \o ItemWrites(id, Tail(items), tieUp)

\* The database writes of createOrder, in the order the handler awaits them.
Writes(u, a, code, items, tieUp) ==
    LET id == Len(orders) + 1
        order == [id |-> id, user_id |-> u,
                  total_amount |-> ToNumeric2(TotalAmount(items), 10, tieUp),
                  shipping_fee |-> ShippingFee,
                  discount_amount |-> DiscountAmount,
                  final_amount |-> ToNumeric2(FinalAmount(items), 10, tieUp),
                  status |-> "pending", payment_status |-> "pending",
                  shipping_address |-> ShippingAddressText(a)]
        d == CommissionDistributor(code)
    IN  <<[kind |-> "order", row |-> order]>>
        \o ItemWrites(id, items, tieUp)
        \o (IF d = Null THEN <<>>
            ELSE <<[kind |-> "commission",
                    row |-> [id |-> Len(commissions) + 1, distributor_id |-> d,
                             order_id |-> id,
                             commission_amount |->
                                CommissionAmount(FinalAmount(items),
                                                 distributors[d].commission_rate, tieUp),
                             commission_rate |-> distributors[d].commission_rate,
                             status |-> "pending", paid_at |-> NullText]]>>)

\* one awaited statement applied to the tables
Apply(db, w) ==
    CASE w.kind = "order" -> [db EXCEPT !.orders = Append(@, w.row)]
      [] w.kind = "item" -> [db EXCEPT !.items = Append(@, w.row)]
      [] w.kind = "stock" ->
            \* stock_quantity: sql`stock_quantity - ${item.quantity}`
            [db EXCEPT !.products[w.product_id].stock_quantity = @ - w.quantity]
      [] OTHER -> [db EXCEPT !.commissions = Append(@, w.row)]

RECURSIVE ApplyAll(_, _)
ApplyAll(db, ws) == IF ws = <<>> THEN db ELSE ApplyAll(Apply(db, Head(ws)), Tail(ws))

RcDb == [products |-> products, orders |-> orders, items |-> orderItems,
         commissions |-> commissions, distributors |-> distributors]

\* what `call' keeps of the state before the call
RcBefore == [stock |-> [p \in DOMAIN products |-> products[p].stock_quantity],
             earnings |-> [d \in DOMAIN distributors |-> distributors[d].total_earnings]]

\* the error validation throws, "ok" when the request reaches the writes
ValidationError(u, a, items) ==
    IF u \notin users THEN "UserNotFound"
    ELSE IF a \notin DOMAIN addresses THEN "AddressNotFound"
    ELSE LoopError(items)

\* The handler's outcome: the error it throws ("ok" for none) and the tables it
\* leaves.  failAt = k > 0: the k-th write is rejected by the database and the
\* handler rethrows; there is no transaction, so the writes before it stay.
CreateOrderOutcome(u, a, code, items, tieUp, failAt) ==
    IF ValidationError(u, a, items) # "ok"
    THEN [result |-> ValidationError(u, a, items), db |-> RcDb]
    ELSE LET ws == Writes(u, a, code, items, tieUp)
         IN IF failAt = 0 \/ failAt > Len(ws)
            THEN [result |-> "ok", db |-> ApplyAll(RcDb, ws)]
            ELSE [result |-> "StorageError",
                  db |-> ApplyAll(RcDb, SubSeq(ws, 1, failAt - 1))]

SetRcDb(db) ==
    /\ products' = db.products
    /\ orders' = db.orders
    /\ orderItems' = db.items
    /\ commissions' = db.commissions
    /\ distributors' = db.distributors

createOrder(u, a, code, items, tieUp, failAt) ==
    /\ variant = "referral-code"
    /\ LET out == CreateOrderOutcome(u, a, code, items, tieUp, failAt)
       IN /\ failAt > 0 => out.result = "StorageError"
          /\ tieUp \/ (out.result \in {"ok", "StorageError"} /\ HasTie(items, code))
          /\ SetRcDb(out.db)
          /\ call' = [op |-> "createOrder", result |-> out.result,
                      id |-> IF out.result = "ok" THEN Len(orders) + 1 ELSE 0,
                      facts |-> RcFacts(u, a, code, items),
                      shape |-> IF out.result = "ok" THEN RcShape(code, items) ELSE {},
                      before |-> RcBefore, changed |-> out.db # RcDb]
    /\ UNCHANGED <<variant, procs, users, addresses, gwTables>>

\* ================================ referral-code variant: order lifecycle
\* rows of a table (a sequence) that belong to order id
OfOrder(table, id) == {i \in DOMAIN table : table[i].order_id = id}

\* for (const item of orderItems) stock_quantity = stock_quantity + item.quantity
\* a cancellation that leaves the stock as it is
KeepInventory(prods, rows) == prods

RECURSIVE RestoreInventory(_, _)
RestoreInventory(prods, rows) ==
    IF rows = <<>> THEN prods
    ELSE RestoreInventory(
            IF Head(rows).product_id \in DOMAIN prods
            THEN [prods EXCEPT ![Head(rows).product_id].stock_quantity =
                                    @ + Head(rows).quantity]
            ELSE prods,
            Tail(rows))

\* if (input.status === 'cancelled' && oldStatus !== 'cancelled')
\* a restore decision that ignores the order's current status
RestoresOnEveryCancel(oldStatus, status) == status = "cancelled"

RestoresOnCancel(oldStatus, status) == status = "cancelled" /\ oldStatus # "cancelled"

\* a cancellation that also clears the amounts of the commissions
CancelCommissionsZeroed(comms, id) ==
    [i \in DOMAIN comms |->
        IF comms[i].order_id = id
        THEN [comms[i] EXCEPT !.status = "cancelled", !.commission_amount = 0]
        ELSE comms[i]]

\* update commissions set status = 'cancelled' where order_id = id
CancelCommissions(comms, id) ==
    [i \in DOMAIN comms |->
        IF comms[i].order_id = id THEN [comms[i] EXCEPT !.status = "cancelled"]
        ELSE comms[i]]

\* update commissions set status = 'paid', paid_at = now where order_id = id
PayCommissions(comms, id) ==
    [i \in DOMAIN comms |->
        IF comms[i].order_id = id
        THEN [comms[i] EXCEPT !.status = "paid", !.paid_at = "set"]
        ELSE comms[i]]

\* the tables updateOrderStatus leaves for an existing order
UpdateOrderStatusDb(id, status) ==
    LET oldStatus == orders[id].status
        restored == IF RestoresOnCancel(oldStatus, status)
                    THEN [RcDb EXCEPT
                            !.products = RestoreInventory(@,
                                SelectIdx(orderItems, OfOrder(orderItems, id))),
                            !.commissions = CancelCommissions(@, id)]
                    ELSE RcDb
    IN [restored EXCEPT !.orders[id].status = status]

LifecycleFacts(id, status) ==
    {"toCancelled" : x \in {status} \cap {"cancelled"}}
    \cup {"wasCancelled" : i \in {j \in DOMAIN orders : j = id /\ orders[j].status = "cancelled"}}
    \cup {"wasPending" : i \in {j \in DOMAIN orders : j = id /\ orders[j].status = "pending"}}
    \cup {"hasCommission" : i \in OfOrder(commissions, id)}

\* the handler body shared by updateOrderStatus and cancelOrder, op names the caller
UpdateOrderStatusAs(op, id, status) ==
    /\ variant = "referral-code"
    /\ LET found == id \in DOMAIN orders
           db == IF found THEN UpdateOrderStatusDb(id, status) ELSE RcDb
       IN /\ \A p \in DOMAIN db.products : db.products[p].stock_quantity <= MaxStock
          /\ SetRcDb(db)
          /\ call' = [op |-> op, result |-> IF found THEN "ok" ELSE "OrderNotFound",
                      id |-> id, facts |-> LifecycleFacts(id, status), shape |-> {},
                      before |-> RcBefore, changed |-> db # RcDb]
    /\ UNCHANGED <<variant, procs, users, addresses, gwTables>>

updateOrderStatus(id, status) == UpdateOrderStatusAs("updateOrderStatus", id, status)

\* return await updateOrderStatus({ id: orderId, status: 'cancelled' })
cancelOrder(orderId) == UpdateOrderStatusAs("cancelOrder", orderId, "cancelled")

\* the tables processPayment leaves for an existing order
ProcessPaymentDb(orderId) ==
    [RcDb EXCEPT !.orders[orderId].status = "paid",
                 !.orders[orderId].payment_status = "paid",
                 !.commissions = PayCommissions(@, orderId)]

processPayment(orderId) ==
    /\ variant = "referral-code"
    /\ LET found == orderId \in DOMAIN orders
           db == IF found THEN ProcessPaymentDb(orderId) ELSE RcDb
       IN /\ SetRcDb(db)
          /\ call' = [op |-> "processPayment",
                      result |-> IF found THEN "ok" ELSE "OrderNotFound",
                      id |-> orderId, facts |-> LifecycleFacts(orderId, "paid"),
                      shape |-> {},
                      before |-> RcBefore, changed |-> db # RcDb]
    /\ UNCHANGED <<variant, procs, users, addresses, gwTables>>

\* ========================== referral-code variant: distributor handlers
MissingDistributor == 8
MissingCommission == 7

\* a createCommission without the existing-commission lookup
createCommissionUnchecked(distributorId, orderId) ==
    IF distributorId \notin DOMAIN distributors THEN "DistributorNotFound"
    ELSE IF orderId \notin DOMAIN orders THEN "OrderNotFound"
    ELSE "ok"

\* the error createCommission throws, "ok" when it inserts
createCommissionResult(distributorId, orderId) ==
    IF distributorId \notin DOMAIN distributors THEN "DistributorNotFound"
    ELSE IF orderId \notin DOMAIN orders THEN "OrderNotFound"
    ELSE IF \E i \in DOMAIN commissions :
                /\ commissions[i].distributor_id = distributorId
                /\ commissions[i].order_id = orderId
         THEN "CommissionAlreadyExists"
    ELSE "ok"

\* amounts in cents, rates in 1/10000; status takes the column default
createCommission(distributorId, orderId, commissionAmount, commissionRate) ==
    /\ variant = "referral-code"
    /\ LET result == createCommissionResult(distributorId, orderId)
           row == [id |-> Len(commissions) + 1, distributor_id |-> distributorId,
                   order_id |-> orderId,
                   commission_amount |-> ToNumeric2(commissionAmount, 1, TRUE),
                   commission_rate |-> commissionRate,
                   status |-> "pending", paid_at |-> NullText]
           db == IF result = "ok" THEN [RcDb EXCEPT !.commissions = Append(@, row)]
                 ELSE RcDb
       IN /\ SetRcDb(db)
          /\ call' = [op |-> "createCommission", result |-> result,
                      id |-> IF result = "ok" THEN row.id ELSE 0,
                      facts |-> {"hasCommission" : i \in {j \in DOMAIN commissions :
                                    /\ commissions[j].distributor_id = distributorId
                                    /\ commissions[j].order_id = orderId}},
                      shape |-> {}, before |-> RcBefore, changed |-> db # RcDb]
    /\ UNCHANGED <<variant, procs, users, addresses, gwTables>>

\* the error payCommission throws, "ok" when it pays
payCommissionResult(commissionId) ==
    IF commissionId \notin DOMAIN commissions THEN "CommissionNotFound"
    ELSE IF commissions[commissionId].status = "paid" THEN "AlreadyPaid"
    ELSE "ok"

\* an earnings update that stores the paid amount alone
OverwrittenEarnings(currentEarnings, commissionAmount) == commissionAmount

\* newTotalEarnings = currentEarnings + commissionAmount  (cents)
NewTotalEarnings(currentEarnings, commissionAmount) == currentEarnings + commissionAmount

\* the tables payCommission leaves for a commission that is not yet paid
PayCommissionDb(commissionId) ==
    LET commission == commissions[commissionId]
        distributorId == commission.distributor_id
    IN [RcDb EXCEPT !.commissions[commissionId].status = "paid",
                    !.commissions[commissionId].paid_at = "set",
                    !.distributors[distributorId].total_earnings =
                        NewTotalEarnings(@, commission.commission_amount)]

payCommission(commissionId) ==
    /\ variant = "referral-code"
    /\ LET result == payCommissionResult(commissionId)
           db == IF result = "ok" THEN PayCommissionDb(commissionId) ELSE RcDb
       IN /\ SetRcDb(db)
          /\ call' = [op |-> "payCommission", result |-> result, id |-> commissionId,
                      facts |-> {"was_" \o commissions[i].status :
                                    i \in {commissionId} \cap DOMAIN commissions},
                      shape |-> {}, before |-> RcBefore, changed |-> db # RcDb]
    /\ UNCHANGED <<variant, procs, users, addresses, gwTables>>

\* ------------------------------------------- createDistributor, updateDistributor
\* `REF${Date.now()}${random}`: a code no other row carries
GeneratedReferralCode == "REFGEN"

\* the error createDistributor throws, "ok" when it inserts
createDistributorResult(user_id) ==
    IF user_id \notin users THEN "UserNotFound"
    ELSE IF \E d \in DOMAIN distributors : distributors[d].user_id = user_id
         THEN "DistributorAlreadyExists"
    ELSE "ok"

\* rates in 1/10000; total_earnings '0', status takes the column default
createDistributor(user_id, commission_rate) ==
    /\ variant = "referral-code"
    /\ LET result == createDistributorResult(user_id)
           row == [user_id |-> user_id, referral_code |-> GeneratedReferralCode,
                   commission_rate |-> commission_rate, total_earnings |-> 0,
                   status |-> "active"]
           db == IF result = "ok" THEN [RcDb EXCEPT !.distributors = Append(@, row)]
                 ELSE RcDb
       IN /\ SetRcDb(db)
          /\ call' = [op |-> "createDistributor", result |-> result,
                      id |-> IF result = "ok" THEN Len(distributors) + 1 ELSE 0,
                      facts |-> {}, shape |-> {}, before |-> RcBefore,
                      changed |-> db # RcDb]
    /\ UNCHANGED <<variant, procs, users, addresses, gwTables>>

\* the distributor row after the partial update; Null and Absent stand for a
\* commission_rate and a status the input leaves out
UpdatedDistributor(row, commission_rate, status) ==
    [row EXCEPT !.commission_rate = IF commission_rate = Null THEN @ ELSE commission_rate,
                !.status = IF status = Absent THEN @ ELSE status]

updateDistributor(id, commission_rate, status) ==
    /\ variant = "referral-code"
    /\ LET found == id \in DOMAIN distributors
           db == IF found
                 THEN [RcDb EXCEPT !.distributors[id] =
                                      UpdatedDistributor(@, commission_rate, status)]
                 ELSE RcDb
       IN /\ SetRcDb(db)
          /\ call' = [op |-> "updateDistributor",
                      result |-> IF found THEN "ok" ELSE "DistributorNotFound",
                      id |-> id, facts |-> {}, shape |-> {}, before |-> RcBefore,
                      changed |-> db # RcDb]
    /\ UNCHANGED <<variant, procs, users, addresses, gwTables>>

\* ------------------------------------------------------------ updateProduct
\* the handler of the referral-code variant resolves with an object built from
\* its input and reads and writes no table
updateProduct(id, price) ==
    /\ variant = "referral-code"
    /\ call' = [op |-> "updateProduct", result |-> "ok", id |-> id,
                facts |-> {}, shape |-> {}, before |-> RcBefore, changed |-> FALSE]
    /\ UNCHANGED <<variant, procs, gwTables, rcTables>>

\* ------------------------------------------------ updateAddress, deleteAddress
\* only the supplied fields change; Absent stands for a field left out
UpdatedAddress(row, recipient_name, street_address) ==
    [row EXCEPT !.recipient_name = IF recipient_name = Absent THEN @ ELSE recipient_name,
                !.street_address = IF street_address = Absent THEN @ ELSE street_address]

updateAddress(id, recipient_name, street_address) ==
    /\ variant = "referral-code"
    /\ LET found == id \in DOMAIN addresses
       IN /\ addresses' = IF found
                          THEN [addresses EXCEPT
                                  ![id] = UpdatedAddress(@, recipient_name, street_address)]
                          ELSE addresses
          /\ call' = [op |-> "updateAddress",
                      result |-> IF found THEN "ok" ELSE "AddressNotFound",
                      id |-> id, facts |-> {}, shape |-> {}, before |-> RcBefore,
                      changed |-> addresses' # addresses]
    /\ UNCHANGED <<variant, procs, users, products, orders, orderItems, distributors,
                   commissions, gwTables>>

\* delete from addresses where id = $1; resolves with whether a row went
deleteAddress(id) ==
    /\ variant = "referral-code"
    /\ addresses' = [a \in DOMAIN addresses \ {id} |-> addresses[a]]
    /\ call' = [op |-> "deleteAddress",
                result |-> IF id \in DOMAIN addresses THEN "true" ELSE "false",
                id |-> id, facts |-> {}, shape |-> {}, before |-> RcBefore,
                changed |-> id \in DOMAIN addresses]
    /\ UNCHANGED <<variant, procs, users, products, orders, orderItems, distributors,
                   commissions, gwTables>>

\* ------------------------------------------------- handler calls in flight
\* Two calls run at once.  A call advances one awaited database statement at
\* a time; the statements of the two calls interleave in any order.  Reads of
\* rows that no statement of the other call writes are taken together with the
\* statement that follows them.
Procs == {1, 2}

Idle == [op |-> "none", pc |-> "idle"]

Finished(p) == procs[p].pc \in {"done", "failed"}

\* ---- createOrder (referral-code variant), one line item on product 1,
\* no referral code
RaceItems(quantity) == <<[product_id |-> 1, quantity |-> quantity, unit_price |-> 1000]>>

\* select user, select address, select product and the stock check of the loop
RcRaceValidate(p, quantity) ==
    /\ variant = "referral-code"
    /\ procs[p].pc = "idle"
    /\ procs' = [procs EXCEPT ![p] =
            [op |-> "createOrder", quantity |-> quantity,
             pc |-> IF ValidationError(1, 1, RaceItems(quantity)) = "ok"
                    THEN "insertOrder" ELSE "failed"]]
    /\ UNCHANGED <<variant, gwTables, rcTables, call>>

\* insert into orders ... returning: the call learns its order id
RcRaceInsertOrder(p) ==
    /\ procs[p].op = "createOrder" /\ procs[p].pc = "insertOrder"
    /\ variant = "referral-code"
    /\ LET w == Writes(1, 1, NullText, RaceItems(procs[p].quantity), TRUE)[1]
       IN /\ orders' = Apply(RcDb, w).orders
          /\ procs' = [procs EXCEPT ![p] =
                [op |-> "createOrder", quantity |-> procs[p].quantity,
                 pc |-> "insertItem", order_id |-> w.row.id]]
    /\ UNCHANGED <<variant, gwTables, users, addresses, products, orderItems,
                   distributors, commissions, call>>

\* insert into order_items
RcRaceInsertItem(p) ==
    /\ procs[p].op = "createOrder" /\ procs[p].pc = "insertItem"
    /\ variant = "referral-code"
    /\ LET w == Writes(1, 1, NullText, RaceItems(procs[p].quantity), TRUE)[2]
       IN orderItems' = Append(orderItems, [w.row EXCEPT !.order_id = procs[p].order_id])
    /\ procs' = [procs EXCEPT ![p].pc = "updateStock"]
    /\ UNCHANGED <<variant, gwTables, users, addresses, products, orders,
                   distributors, commissions, call>>

\* update products set stock_quantity = stock_quantity - quantity
RcRaceUpdateStock(p) ==
    /\ procs[p].op = "createOrder" /\ procs[p].pc = "updateStock"
    /\ variant = "referral-code"
    /\ LET w == Writes(1, 1, NullText, RaceItems(procs[p].quantity), TRUE)[3]
       IN products' = Apply(RcDb, w).products
    /\ procs' = [procs EXCEPT ![p].pc = "done"]
    /\ UNCHANGED <<variant, gwTables, users, addresses, orders, orderItems,
                   distributors, commissions, call>>

\* ---- createOrder (graph-walk variant), one line item on product 1, user 3
\* (no referrer)
GwRaceItems(quantity) == <<[product_id |-> 1, quantity |-> quantity]>>

\* step 1: select the products (the call keeps the rows it read), the checks
\* of the loop, select user
GwRaceRead(p, quantity) ==
    /\ variant = "graph-walk"
    /\ procs[p].pc = "idle"
    /\ procs' = [procs EXCEPT ![p] =
            [op |-> "createOrder", quantity |-> quantity,
             stock_quantity |-> gwProducts[1].stock_quantity,
             pc |-> IF GwCreateOrderOutcome(3, GwRaceItems(quantity),
                                            NullText, TRUE, 0).result = "ok"
                    THEN "insertOrder" ELSE "failed"]]
    /\ UNCHANGED <<variant, gwTables, rcTables, call>>

GwRaceInsertOrder(p) ==
    /\ procs[p].op = "createOrder" /\ procs[p].pc = "insertOrder"
    /\ variant = "graph-walk"
    /\ LET w == GwWrites(3, GwRaceItems(procs[p].quantity), NullText, TRUE)[1]
       IN /\ gwOrders' = GwApply(GwDb, w).orders
          /\ procs' = [procs EXCEPT ![p] = [@ EXCEPT !.pc = "insertItems"]
                                            @@ [order_id |-> w.row.id]]
    /\ UNCHANGED <<variant, rcTables, gwUsers, gwProducts, gwOrderItems,
                   gwReferralCommissions, call>>

GwRaceInsertItems(p) ==
    /\ procs[p].op = "createOrder" /\ procs[p].pc = "insertItems"
    /\ variant = "graph-walk"
    /\ LET w == GwWrites(3, GwRaceItems(procs[p].quantity), NullText, TRUE)[2]
       IN gwOrderItems' = gwOrderItems \o
              [i \in DOMAIN w.rows |-> [w.rows[i] EXCEPT !.order_id = procs[p].order_id]]
    /\ procs' = [procs EXCEPT ![p].pc = "updateStock"]
    /\ UNCHANGED <<variant, rcTables, gwUsers, gwProducts, gwOrders,
                   gwReferralCommissions, call>>

\* update products set stock_quantity = (the stock read in step 1) - quantity
GwRaceUpdateStock(p) ==
    /\ procs[p].op = "createOrder" /\ procs[p].pc = "updateStock"
    /\ variant = "graph-walk"
    /\ gwProducts' = [gwProducts EXCEPT ![1].stock_quantity =
                            procs[p].stock_quantity - procs[p].quantity]
    /\ procs' = [procs EXCEPT ![p].pc = "done"]
    /\ UNCHANGED <<variant, rcTables, gwUsers, gwOrders, gwOrderItems,
                   gwReferralCommissions, call>>

\* ---- createCommission: the three selects, then the insert
RaceCommissionCheck(p, distributorId, orderId) ==
    /\ variant = "referral-code"
    /\ procs[p].pc = "idle"
    /\ procs' = [procs EXCEPT ![p] =
            [op |-> "createCommission", distributor_id |-> distributorId,
             order_id |-> orderId,
             pc |-> IF createCommissionResult(distributorId, orderId) = "ok"
                    THEN "insert" ELSE "failed"]]
    /\ UNCHANGED <<variant, gwTables, rcTables, call>>

\* insert into commissions (commission 2.50 at rate 0.05)
RaceCommissionInsert(p) ==
    /\ procs[p].op = "createCommission" /\ procs[p].pc = "insert"
    /\ variant = "referral-code"
    /\ commissions' = Append(commissions,
            [id |-> Len(commissions) + 1, distributor_id |-> procs[p].distributor_id,
             order_id |-> procs[p].order_id,
             commission_amount |-> ToNumeric2(250, 1, TRUE), commission_rate |-> 500,
             status |-> "pending", paid_at |-> NullText])
    /\ procs' = [procs EXCEPT ![p].pc = "done"]
    /\ UNCHANGED <<variant, gwTables, users, addresses, products, orders, orderItems,
                   distributors, call>>

\* ---- cancelOrder: updateOrderStatus({ id, status: 'cancelled' })
\* select the order (the call keeps its status) and, if it is not cancelled
\* yet, its order items
RaceCancelRead(p, orderId) ==
    /\ variant = "referral-code"
    /\ procs[p].pc = "idle"
    /\ procs' = [procs EXCEPT ![p] =
            IF orderId \notin DOMAIN orders
            THEN [op |-> "cancelOrder", order_id |-> orderId, pc |-> "failed"]
            ELSE IF RestoresOnCancel(orders[orderId].status, "cancelled")
            THEN [op |-> "cancelOrder", order_id |-> orderId, pc |-> "restore",
                  orderItems |-> SelectIdx(orderItems, OfOrder(orderItems, orderId))]
            ELSE [op |-> "cancelOrder", order_id |-> orderId, pc |-> "updateStatus"]]
    /\ UNCHANGED <<variant, gwTables, rcTables, call>>

\* one turn of the restore loop: stock_quantity = stock_quantity + item.quantity
RaceCancelRestore(p) ==
    /\ procs[p].op = "cancelOrder" /\ procs[p].pc = "restore"
    /\ variant = "referral-code"
    /\ procs[p].orderItems # <<>>
    /\ products' = RestoreInventory(products, <<Head(procs[p].orderItems)>>)
    /\ procs' = [procs EXCEPT ![p].orderItems = Tail(@)]
    /\ UNCHANGED <<variant, gwTables, users, addresses, orders, orderItems,
                   distributors, commissions, call>>

\* after the loop: update commissions set status = 'cancelled'
RaceCancelCommissions(p) ==
    /\ procs[p].op = "cancelOrder" /\ procs[p].pc = "restore"
    /\ variant = "referral-code"
    /\ procs[p].orderItems = <<>>
    /\ commissions' = CancelCommissions(commissions, procs[p].order_id)
    /\ procs' = [procs EXCEPT ![p].pc = "updateStatus"]
    /\ UNCHANGED <<variant, gwTables, users, addresses, products, orders, orderItems,
                   distributors, call>>

\* update orders set status = 'cancelled'
RaceCancelUpdateStatus(p) ==
    /\ procs[p].op = "cancelOrder" /\ procs[p].pc = "updateStatus"
    /\ variant = "referral-code"
    /\ orders' = [orders EXCEPT ![procs[p].order_id].status = "cancelled"]
    /\ procs' = [procs EXCEPT ![p].pc = "done"]
    /\ UNCHANGED <<variant, gwTables, users, addresses, products, orderItems,
                   distributors, commissions, call>>

\* ---- payCommission
\* select the commission (the call keeps the row) and the already-paid check
RacePayRead(p, commissionId) ==
    /\ variant = "referral-code"
    /\ procs[p].pc = "idle"
    /\ procs' = [procs EXCEPT ![p] =
            IF payCommissionResult(commissionId) = "ok"
            THEN [op |-> "payCommission", commission_id |-> commissionId,
                  pc |-> "updateCommission", commission |-> commissions[commissionId]]
            ELSE [op |-> "payCommission", commission_id |-> commissionId,
                  pc |-> "failed"]]
    /\ UNCHANGED <<variant, gwTables, rcTables, call>>

\* update commissions set status = 'paid', paid_at = now where id = commissionId
RacePayUpdateCommission(p) ==
    /\ procs[p].op = "payCommission" /\ procs[p].pc = "updateCommission"
    /\ variant = "referral-code"
    /\ commissions' = [commissions EXCEPT ![procs[p].commission_id].status = "paid",
                                          ![procs[p].commission_id].paid_at = "set"]
    /\ procs' = [procs EXCEPT ![p].pc = "selectDistributor"]
    /\ UNCHANGED <<variant, gwTables, users, addresses, products, orders, orderItems,
                   distributors, call>>

\* select the distributor: the call keeps currentEarnings
RacePaySelectDistributor(p) ==
    /\ procs[p].op = "payCommission" /\ procs[p].pc = "selectDistributor"
    /\ variant = "referral-code"
    /\ procs' = [procs EXCEPT ![p] =
            [@ EXCEPT !.pc = "updateDistributor"]
            @@ [currentEarnings |->
                    distributors[procs[p].commission.distributor_id].total_earnings]]
    /\ UNCHANGED <<variant, gwTables, rcTables, call>>

\* update distributors set total_earnings = currentEarnings + commissionAmount
RacePayUpdateDistributor(p) ==
    /\ procs[p].op = "payCommission" /\ procs[p].pc = "updateDistributor"
    /\ variant = "referral-code"
    /\ distributors' = [distributors EXCEPT
            ![procs[p].commission.distributor_id].total_earnings =
                NewTotalEarnings(procs[p].currentEarnings,
                                 procs[p].commission.commission_amount)]
    /\ procs' = [procs EXCEPT ![p].pc = "done"]
    /\ UNCHANGED <<variant, gwTables, users, addresses, products, orders, orderItems,
                   commissions, call>>

\* ----------------------------------------------------------- specifications

\* 0: every write is accepted; k: the k-th write of the call is rejected
FailPoints == 0..MaxWrites

NoCall == [op |-> "none", result |-> "ok", id |-> 0, facts |-> {}, shape |-> {},
           before |-> [stock |-> <<>>, earnings |-> <<>>], changed |-> FALSE]

GwCreate ==
    \E u \in GwUserIds \cup {GwMissingUser}, items \in GwItemLists,
       addr \in ShippingAddresses, tieUp \in BOOLEAN :
        Gw_createOrder(u, items, addr, tieUp, 0)

GwInventory ==
    \E p \in {1, GwMissingProduct}, d \in QuantityChanges :
        updateInventory(p, d)

GwUpdateOrder ==
    \E id \in 1..GwMaxOrders \cup {GwMissingOrder}, status \in UpdateOrderStatuses,
       shipping_address \in UpdateOrderAddresses :
        updateOrder(id, status, shipping_address)

GwCreateUser ==
    \E email \in Emails, referrer_id \in ReferrerInputs :
        Len(gwUsers) < MaxUsers /\ createUser(email, referrer_id)

RcCreate ==
    \E u \in {1, MissingUser}, a \in AddressIds \cup {MissingAddress},
       code \in ReferralCodes, items \in ItemLists, tieUp \in BOOLEAN :
        Len(orders) < MaxOrders /\ createOrder(u, a, code, items, tieUp, 0)

OrderIds == 1..MaxOrders \cup {MissingOrder}

StatusInputs == {"paid", "shipped", "cancelled"}

RcUpdateStatus == \E id \in OrderIds, status \in StatusInputs : updateOrderStatus(id, status)

RcCancel == \E id \in OrderIds : cancelOrder(id)

RcPay == \E id \in OrderIds : processPayment(id)

Init ==
    /\ variant \in {"graph-walk", "referral-code"}
    /\ GwInit
    /\ RcInit
    /\ call = NoCall
    /\ procs = [p \in Procs |-> Idle]

InitGw == Init /\ variant = "graph-walk"

InitRc == Init /\ variant = "referral-code"

GwNext == GwCreate \/ GwInventory \/ GwUpdateOrder

RcNext == RcCreate \/ RcUpdateStatus \/ RcCancel \/ RcPay

Next == GwNext \/ RcNext

\* createOrder of either variant with the k-th database write rejected
GwCreateFault ==
    \E u \in GwUserIds, items \in GwItemLists, addr \in ShippingAddresses,
       failAt \in FailPoints : Gw_createOrder(u, items, addr, TRUE, failAt)

RcCreateFault ==
    \E code \in ReferralCodes, items \in ItemLists, failAt \in FailPoints :
        Len(orders) < MaxOrders /\ createOrder(1, 1, code, items, TRUE, failAt)

FaultNext == GwCreateFault \/ RcCreateFault

\* the commission ledger: orders with and without a referral code, commissions
\* added by hand, commissions paid
LedgerItems == {<<[product_id |-> 1, quantity |-> 1, unit_price |-> 1000]>>}

LedgerCreate ==
    \E code \in {NullText, "REF001"}, items \in LedgerItems :
        /\ Len(orders) < MaxLedgerOrders
        /\ Len(commissions) < MaxCommissions
        /\ createOrder(1, 1, code, items, TRUE, 0)

CommissionAmounts == {250}

LedgerCommission ==
    \E d \in DOMAIN distributors \cup {MissingDistributor},
       o \in 1..MaxLedgerOrders \cup {MissingOrder}, amount \in CommissionAmounts :
        /\ Len(commissions) < MaxCommissions
        /\ createCommission(d, o, amount, 500)

LedgerPay == \E c \in 1..MaxCommissions \cup {MissingCommission} : payCommission(c)

LedgerNext == LedgerCreate \/ LedgerCommission \/ LedgerPay

\* the order lifecycle together with the commission ledger
LifecycleCreate ==
    \E code \in {NullText, "REF001"}, items \in LedgerItems :
        /\ Len(orders) < MaxOrders
        /\ createOrder(1, 1, code, items, TRUE, 0)

LifecycleCommission ==
    \E d \in {2, MissingDistributor}, o \in OrderIds, amount \in CommissionAmounts :
        /\ Len(commissions) < MaxCommissions
        /\ createCommission(d, o, amount, 500)

\* paying, cancelling and paying again credits again: the credits are capped
LifecyclePay ==
    \E c \in 1..MaxCommissions \cup {MissingCommission} :
        /\ payCommission(c)
        /\ \A d \in DOMAIN distributors' : distributors'[d].total_earnings <= MaxEarnings

LifecycleDistributor ==
    \E u \in {1, 2, MissingUser} : createDistributor(u, 500)

LifecycleNext ==
    \/ LifecycleCreate \/ LifecycleCommission \/ LifecyclePay
    \/ RcUpdateStatus \/ RcCancel \/ RcPay
    \/ LifecycleDistributor

SpecLifecycle == InitRc /\ [][LifecycleNext]_vars

\* the order lifecycle together with the edits of the rows an order was
\* computed from
RateInputs == {Null, 2000}

DistributorStatusInputs == {Absent, "inactive"}

FrameUpdateDistributor ==
    \E d \in {1, MissingDistributor}, rate \in RateInputs,
       status \in DistributorStatusInputs : updateDistributor(d, rate, status)

ProductPrices == {1500}

FrameUpdateProduct == \E p \in {1}, price \in ProductPrices : updateProduct(p, price)

StreetInputs == {Absent, "9 New Road"}

FrameUpdateAddress ==
    \E a \in AddressIds \cup {MissingAddress}, street \in StreetInputs :
        updateAddress(a, Absent, street)

FrameDeleteAddress == \E a \in AddressIds \cup {MissingAddress} : deleteAddress(a)

FrameNext ==
    \/ LifecycleCreate \/ LifecyclePay
    \/ RcUpdateStatus \/ RcCancel \/ RcPay
    \/ FrameUpdateDistributor \/ FrameUpdateProduct
    \/ FrameUpdateAddress \/ FrameDeleteAddress

SpecFrame == InitRc /\ [][FrameNext]_vars

\* two createOrder calls in flight on product 1, in either variant
RaceOrderNext ==
    \E p \in Procs :
        \/ \E quantity \in 1..MaxQty : RcRaceValidate(p, quantity)
        \/ RcRaceInsertOrder(p) \/ RcRaceInsertItem(p) \/ RcRaceUpdateStock(p)
        \/ \E quantity \in 1..MaxQty : GwRaceRead(p, quantity)
        \/ GwRaceInsertOrder(p) \/ GwRaceInsertItems(p) \/ GwRaceUpdateStock(p)

SpecRaceOrder == Init /\ [][RaceOrderNext]_vars

\* an order placed while no call is in flight
RaceSetupOrder ==
    \E code \in {NullText, "REF001"}, quantity \in 1..MaxQty :
        /\ \A p \in Procs : procs[p].pc = "idle"
        /\ Len(orders) < MaxOrders
        /\ createOrder(1, 1, code, RaceItems(quantity), TRUE, 0)

\* two createCommission calls in flight
RaceCommissionNext ==
    \/ RaceSetupOrder
    \/ \E p \in Procs :
        \/ \E d \in DOMAIN distributors \cup {MissingDistributor}, o \in OrderIds :
                RaceCommissionCheck(p, d, o)
        \/ RaceCommissionInsert(p)

SpecRaceCommission == InitRc /\ [][RaceCommissionNext]_vars

\* two cancelOrder calls in flight
RaceCancelNext ==
    \/ RaceSetupOrder
    \/ \E p \in Procs :
        \/ \E o \in OrderIds : RaceCancelRead(p, o)
        \/ RaceCancelRestore(p) \/ RaceCancelCommissions(p) \/ RaceCancelUpdateStatus(p)

SpecRaceCancel == InitRc /\ [][RaceCancelNext]_vars

\* orders with a referral code placed while no call is in flight
RacePaySetup ==
    \E code \in {NullText, "REF001"} :
        /\ \A p \in Procs : procs[p].pc = "idle"
        /\ Len(orders) < MaxLedgerOrders
        /\ createOrder(1, 1, code, RaceItems(1), TRUE, 0)

\* two payCommission calls in flight
RacePayNext ==
    \/ RacePaySetup
    \/ \E p \in Procs :
        \/ \E c \in 1..MaxLedgerOrders \cup {MissingCommission} : RacePayRead(p, c)
        \/ RacePayUpdateCommission(p) \/ RacePaySelectDistributor(p)
        \/ RacePayUpdateDistributor(p)

SpecRacePay == InitRc /\ [][RacePayNext]_vars

\* either variant, every handler run to completion, no storage failure
Spec == Init /\ [][Next]_vars

\* the graph-walk variant alone
SpecGw == InitGw /\ [][GwNext]_vars

\* the referral-code variant alone
SpecRc == InitRc /\ [][RcNext]_vars

\* the referral-code variant's commission ledger
SpecLedger == InitRc /\ [][LedgerNext]_vars

\* user registration of the graph-walk variant alone
SpecUsers == InitGw /\ [][GwCreateUser]_vars

\* createOrder of either variant when the database may reject a write
SpecFault == Init /\ [][FaultNext]_vars

\* ================================================================ properties
Abs(x) == IF x < 0 THEN 0 - x ELSE x

\* the last call was a graph-walk createOrder that returned an order
GwCreated == call.op = "Gw_createOrder" /\ call.result = "ok"

\* quantity of product p over the rows of `rows` that belong to order id
RECURSIVE OrderedQuantity(_, _, _)
OrderedQuantity(rows, id, p) ==
    IF rows = <<>> THEN 0
    ELSE (IF Head(rows).order_id = id /\ Head(rows).product_id = p
          THEN Head(rows).quantity ELSE 0)
         + OrderedQuantity(Tail(rows), id, p)

\* the last call was a referral-code createOrder that returned an order
RcCreated == call.op = "createOrder" /\ call.result = "ok"

\* the last call was a createOrder of either variant
CreateCalled == call.op \in {"Gw_createOrder", "createOrder"}

\* the last call asked to cancel an order
CancelCalled ==
    /\ call.op \in {"cancelOrder", "updateOrderStatus"}
    /\ "toCancelled" \in call.facts

\* ---------------------------------------------------------------- C1
\* C1: in every reachable state every product's stock_quantity is >= 0, also
\* after a createOrder whose request lists one product in several line items.
C1_StockNeverNegative ==
    /\ \A p \in DOMAIN products : products[p].stock_quantity >= 0
    /\ \A p \in DOMAIN gwProducts : gwProducts[p].stock_quantity >= 0

\* ---------------------------------------------------------------- C2
\* C2: a createOrder call that ends with the error of a rejected write leaves no
\* order row, order item, stock change or commission row of its own behind.
C2_PersistenceAllOrNothing ==
    (CreateCalled /\ call.result = "StorageError") => ~call.changed

\* ---------------------------------------------------------------- C3
\* C3: a graph-walk createOrder request in which some line item names a product
\* that does not exist or is disabled fails with the 'not available or disabled'
\* error and leaves the orders, order items, commissions and every stock as they
\* were, whatever the other items of the request are.
C3_UnavailableProductRejectsBatch ==
    (call.op = "Gw_createOrder" /\ "bad" \in call.facts)
        => (call.result = "NotAvailable" /\ ~call.changed)

\* C3 witness: a rejected request that mixes an unavailable product with a valid one
C3_Witness ==
    /\ call.op = "Gw_createOrder"
    /\ {"bad", "valid"} \subseteq call.facts
    /\ call.result = "NotAvailable"
    /\ gwOrders = <<>> /\ gwOrderItems = <<>>

C4_EarlierChecksPass ==
    IF call.op = "Gw_createOrder"
    THEN call.facts \cap {"bad", "dup"} = {}
    ELSE call.facts \cap {"noUser", "noAddress", "missing"} = {}

C5_TotalsAreQuantityTimesPrice ==
    /\ GwCreated =>
          LET rows == SelectIdx(gwOrderItems, {i \in DOMAIN gwOrderItems :
                                                gwOrderItems[i].order_id = call.id})
          IN /\ \A i \in DOMAIN rows :
                   /\ rows[i].unit_price = gwProducts[rows[i].product_id].price
                   /\ rows[i].total_price = rows[i].quantity * rows[i].unit_price
             /\ gwOrders[call.id].total_amount =
                   SumSeq([i \in DOMAIN rows |-> rows[i].quantity * rows[i].unit_price])
    /\ RcCreated =>
          LET rows == SelectIdx(orderItems, {i \in DOMAIN orderItems :
                                              orderItems[i].order_id = call.id})
          IN /\ \A i \in DOMAIN rows :
                   rows[i].total_price = rows[i].quantity * rows[i].unit_price
             /\ orders[call.id].total_amount =
                   SumSeq([i \in DOMAIN rows |-> rows[i].quantity * rows[i].unit_price])

\* ---------------------------------------------------------------- C6
\* C6: after a successful graph-walk createOrder every physical product's stock is
\* its stock before the call minus the quantity the order holds of it, every
\* virtual product's stock and every product outside the order is unchanged, and
\* the insufficient-inventory error is only ever raised for a physical item that
\* asks for more than the stock (so a virtual item at stock 0 is accepted).
C6_StockDecreasedByOrderedQuantity ==
    /\ GwCreated =>
          \A p \in DOMAIN gwProducts :
             gwProducts[p].stock_quantity =
                call.before.stock[p]
                - (IF gwProducts[p].type = "physical"
                   THEN OrderedQuantity(gwOrderItems, call.id, p) ELSE 0)
    /\ (call.op = "Gw_createOrder" /\ call.result = "InsufficientInventory")
          => "over" \in call.facts

\* C6 witness: an accepted order of a physical product and of a virtual product
\* whose stock is 0
C6_Witness ==
    /\ GwCreated
    /\ {"virtualAtZero", "physical"} \subseteq call.shape
    /\ \E p \in DOMAIN gwProducts : gwProducts[p].stock_quantity < call.before.stock[p]

\* ---------------------------------------------------------------- C7
\* rows of referral_commissions that belong to the order of the last call
C7_Rows == {i \in DOMAIN gwReferralCommissions :
               gwReferralCommissions[i].order_id = call.id}

\* row i is the commission of `level` at `percent` of the order total for `who`;
\* the amount is percent% of total_amount rounded to the cent the column keeps
C7_IsRow(i, level, percent, who) ==
    LET r == gwReferralCommissions[i]
    IN /\ r.level = level
       /\ r.commission_percentage = percent
       /\ r.distributor_id = who
       /\ 2 * Abs(100 * r.commission_amount - percent * gwOrders[call.id].total_amount)
             <= 100

\* C7: a successful graph-walk createOrder leaves, for the new order: one row
\* (level 1, 5%, the referrer) when the user has a first-level referrer only; two
\* rows (level 1 at 5% for the referrer, level 2 at 3% for the secondary
\* referrer) when the user has both; no row and both fee fields null when the
\* user has neither; and the order's referral_fee_level_1/2 are the amounts of
\* the level-1/level-2 rows.
C7_ReferralCommissionRows ==
    GwCreated =>
        LET o == gwOrders[call.id]
            ref1 == gwUsers[o.user_id].referrer_id
            ref2 == gwUsers[o.user_id].secondary_referrer_id
        IN /\ (ref1 # Null /\ ref2 = Null) =>
                 /\ Cardinality(C7_Rows) = 1
                 /\ \E i \in C7_Rows :
                       /\ C7_IsRow(i, 1, GwLevel1Percent, ref1)
                       /\ o.referral_fee_level_1 = gwReferralCommissions[i].commission_amount
                 /\ o.referral_fee_level_2 = Null
           /\ (ref1 # Null /\ ref2 # Null) =>
                 /\ Cardinality(C7_Rows) = 2
                 /\ \E i \in C7_Rows :
                       /\ C7_IsRow(i, 1, GwLevel1Percent, ref1)
                       /\ o.referral_fee_level_1 = gwReferralCommissions[i].commission_amount
                 /\ \E j \in C7_Rows :
                       /\ C7_IsRow(j, 2, GwLevel2Percent, ref2)
                       /\ o.referral_fee_level_2 = gwReferralCommissions[j].commission_amount
           /\ (ref1 = Null /\ ref2 = Null) =>
                 /\ C7_Rows = {}
                 /\ o.referral_fee_level_1 = Null
                 /\ o.referral_fee_level_2 = Null

\* C7 witness: an accepted order of a user with both referrers, two rows written
C7_Witness ==
    /\ GwCreated
    /\ gwUsers[gwOrders[call.id].user_id].referrer_id # Null
    /\ gwUsers[gwOrders[call.id].user_id].secondary_referrer_id # Null
    /\ Cardinality(C7_Rows) = 2

\* ---------------------------------------------------------------- C8
\* C8: when cancelOrder is the call right after the createOrder that made a
\* (still pending) order, every physical product's stock is back at its value
\* before that createOrder, the order's status is cancelled and every commission
\* row of the order is cancelled.
C8_CreateThenCancelRestores ==
    [][(RcCreated /\ call'.op = "cancelOrder" /\ call'.id = call.id)
        => /\ \A p \in DOMAIN products' :
                 products'[p].product_type = "physical"
                    => products'[p].stock_quantity = call.before.stock[p]
           /\ orders'[call.id].status = "cancelled"
           /\ \A i \in DOMAIN commissions' :
                 commissions'[i].order_id = call.id
                    => commissions'[i].status = "cancelled"]_vars

\* C8 witness: cancelOrder has cancelled a pending order that had a commission
\* and given stock back
C8_Witness ==
    /\ call.op = "cancelOrder" /\ call.result = "ok"
    /\ {"wasPending", "hasCommission"} \subseteq call.facts
    /\ orders[call.id].status = "cancelled"
    /\ \E p \in DOMAIN products : products[p].stock_quantity > call.before.stock[p]

\* ---------------------------------------------------------------- C9
\* C9: cancelOrder or updateOrderStatus(cancelled) on an order that is already
\* cancelled leaves every product's stock and every commission (and all other
\* rows) unchanged, so a second cancel restores nothing.
C9_CancelIsIdempotent ==
    (CancelCalled /\ "wasCancelled" \in call.facts)
        => /\ \A p \in DOMAIN products :
                 products[p].stock_quantity = call.before.stock[p]
           /\ ~call.changed

\* C9 witness: a cancel of an already cancelled order that has a commission
C9_Witness ==
    /\ call.op = "cancelOrder" /\ call.result = "ok"
    /\ {"toCancelled", "wasCancelled", "hasCommission"} \subseteq call.facts
    /\ orders[call.id].status = "cancelled"

\* ---------------------------------------------------------------- C10
\* sum of the commission amounts of order id owed to distributor d
RECURSIVE OwedTo(_, _, _)
OwedTo(comms, id, d) ==
    IF comms = <<>> THEN 0
    ELSE (IF Head(comms).order_id = id /\ Head(comms).distributor_id = d
          THEN Head(comms).commission_amount ELSE 0)
         + OwedTo(Tail(comms), id, d)

\* C10: processPayment on an existing order leaves the order's status and
\* payment_status paid, every commission row of the order paid with paid_at set,
\* and each distributor's total_earnings raised by the sum of the order's
\* commission amounts owed to them.
C10_PaymentCreditsEarnings ==
    (call.op = "processPayment" /\ call.result = "ok")
        => /\ orders[call.id].status = "paid"
           /\ orders[call.id].payment_status = "paid"
           /\ \A i \in DOMAIN commissions :
                 commissions[i].order_id = call.id
                    => (commissions[i].status = "paid" /\ commissions[i].paid_at # NullText)
           /\ \A d \in DOMAIN distributors :
                 distributors[d].total_earnings =
                    call.before.earnings[d] + OwedTo(commissions, call.id, d)

\* ---------------------------------------------------------------- C11
\* C11: payCommission on a pending commission sets it to paid (paid_at set) and
\* raises its distributor's total_earnings by exactly the commission amount on
\* top of the previous total, leaving every other distributor's total alone;
\* payCommission on a commission that is already paid fails with the already
\* paid error and leaves the commission and every total_earnings unchanged.
C11_PayCommissionOnceCumulative ==
    call.op = "payCommission" =>
        /\ "was_pending" \in call.facts =>
              /\ call.result = "ok"
              /\ commissions[call.id].status = "paid"
              /\ commissions[call.id].paid_at # NullText
              /\ \A d \in DOMAIN distributors :
                    distributors[d].total_earnings =
                       call.before.earnings[d]
                       + (IF d = commissions[call.id].distributor_id
                          THEN commissions[call.id].commission_amount ELSE 0)
        /\ "was_paid" \in call.facts =>
              /\ call.result = "AlreadyPaid"
              /\ ~call.changed
              /\ \A d \in DOMAIN distributors :
                    distributors[d].total_earnings = call.before.earnings[d]

\* C11 witness: a repeated payCommission is rejected after the distributor's
\* total has accumulated more than this one commission
C11_Witness ==
    /\ call.op = "payCommission"
    /\ call.result = "AlreadyPaid"
    /\ distributors[commissions[call.id].distributor_id].total_earnings
          > commissions[call.id].commission_amount

\* ---------------------------------------------------------------- C12
\* C12: whatever createOrder and createCommission calls have run, no two
\* commission rows share a (distributor_id, order_id) pair, and a createCommission
\* call for a pair that already has a row fails with 'Commission already exists'
\* and inserts nothing.
C12_OneCommissionPerPair ==
    /\ \A i, j \in DOMAIN commissions :
          (/\ commissions[i].distributor_id = commissions[j].distributor_id
           /\ commissions[i].order_id = commissions[j].order_id) => i = j
    /\ (call.op = "createCommission" /\ "hasCommission" \in call.facts)
          => (call.result = "CommissionAlreadyExists" /\ ~call.changed)

\* C12 witness: createCommission rejected for a pair whose row createOrder wrote
C12_Witness ==
    /\ call.op = "createCommission"
    /\ call.result = "CommissionAlreadyExists"
    /\ \E i \in DOMAIN commissions : commissions[i].commission_rate = 1000

\* ---------------------------------------------------------------- C13
\* distributors that are active and own the referral code of the last request
C13_ActiveForCode ==
    {d \in DOMAIN distributors :
        /\ ("code_" \o distributors[d].referral_code) \in call.shape
        /\ distributors[d].status = "active"}

\* C13: a successful referral-code createOrder writes a commission row for the
\* new order exactly when the request's referral code is that of an active
\* distributor: then one row, pending, with that distributor's id and rate and
\* amount = final_amount * commission_rate (amounts as stored, to the cent);
\* with no code, an unknown code or a distributor that is not active the order
\* is created with no commission row.  final_amount = total_amount + 10 - 0.
C13_CommissionOnlyForActiveCode ==
    RcCreated =>
        LET rows == OfOrder(commissions, call.id)
            o == orders[call.id]
        IN /\ o.final_amount = o.total_amount + ShippingFee - DiscountAmount
           /\ C13_ActiveForCode = {} => rows = {}
           /\ C13_ActiveForCode # {} =>
                 /\ Cardinality(rows) = 1
                 /\ \E i \in rows, d \in C13_ActiveForCode :
                       /\ commissions[i].distributor_id = d
                       /\ commissions[i].commission_rate = distributors[d].commission_rate
                       /\ commissions[i].status = "pending"
                       /\ 2 * Abs(10000 * commissions[i].commission_amount
                                  - o.final_amount * commissions[i].commission_rate)
                             <= 10000 + commissions[i].commission_rate

\* C13 witness: an order placed with the code of an active distributor has its
\* one pending commission row
C13_Witness ==
    /\ RcCreated
    /\ C13_ActiveForCode # {}
    /\ \E i \in OfOrder(commissions, call.id) :
          commissions[i].status = "pending" /\ commissions[i].commission_amount > 0

\* ---------------------------------------------------------------- C14
\* C14: a referral-code createOrder request that names a missing product fails
\* and persists nothing, and no accepted order holds an item whose product was
\* inactive (is_active = false) when the order was created.
C14_ProductsExistAndActive ==
    /\ (call.op = "createOrder" /\ "missing" \in call.facts)
          => (call.result # "ok" /\ ~call.changed)
    /\ RcCreated => "inactive" \notin call.shape

\* ---------------------------------------------------------------- C15
\* C15: in the referral-code variant virtual products are outside stock
\* handling: createOrder raises the insufficient stock error only for a physical
\* item, leaves the stock of virtual products as it was, and a cancel leaves the
\* stock of virtual products as it was.
C15_VirtualExemptFromStock ==
    /\ (call.op = "createOrder" /\ call.result = "InsufficientStock")
          => "over" \in call.facts
    /\ (RcCreated \/ (CancelCalled /\ call.result = "ok")) =>
          \A p \in DOMAIN products :
             products[p].product_type = "virtual"
                => products[p].stock_quantity = call.before.stock[p]

\* ---------------------------------------------------------------- C16
\* C16: createOrder reports the first failing check in the specified order: a
\* request whose user does not exist fails with the user-not-found error whatever
\* its items are, and an insufficient inventory/stock error is only reported
\* when every product of the request exists (and, graph-walk, is enabled).
C16_ChecksInSpecifiedOrder ==
    CreateCalled =>
        /\ "noUser" \in call.facts => call.result = "UserNotFound"
        /\ call.result \in {"InsufficientInventory", "InsufficientStock"}
              => call.facts \cap {"bad", "missing"} = {}

\* ---------------------------------------------------------------- C17
\* C17: in either variant a createOrder request with an empty items list is
\* rejected and writes nothing; no order row exists for it afterwards.
C17_EmptyOrderRejected ==
    (CreateCalled /\ "empty" \in call.facts)
        => (call.result # "ok" /\ ~call.changed)

\* the last call was an order-lifecycle operation on an order id that no
\* order row carries
UnknownOrderCalled ==
    \/ /\ call.op \in {"updateOrderStatus", "cancelOrder", "processPayment"}
       /\ call.id \notin DOMAIN orders
    \/ /\ call.op = "updateOrder"
       /\ call.id \notin DOMAIN gwOrders

\* C18: updateOrderStatus, cancelOrder, processPayment and updateOrder called
\* with an order id that does not exist fail with 'Order with id ... not
\* found' and change no order, stock, commission or distributor row.
C18_UnknownOrderNotFound ==
    UnknownOrderCalled => (call.result = "OrderNotFound" /\ ~call.changed)

\* C19: updateOrder on an existing order stores exactly the supplied fields
\* (status, shipping_address, an explicit null clearing the address), keeps
\* every other stored field, and returns the stored row.
C19_UpdateOrderPersistsPartial ==
    [][(call'.op = "updateOrder" /\ call'.id \in DOMAIN gwOrders) =>
        LET old == gwOrders[call'.id]
            new == gwOrders'[call'.id]
            in == call'.input
        IN /\ call'.id \in DOMAIN gwOrders'
           /\ new = [old EXCEPT
                       !.status = IF in.status = Absent THEN @ ELSE in.status,
                       !.shipping_address = IF in.shipping_address = Absent
                                            THEN @ ELSE in.shipping_address]
           /\ call'.returned = new
           /\ UNCHANGED <<gwUsers, gwProducts, gwOrderItems, gwReferralCommissions>>]_vars

\* C20: createUser stores as secondary_referrer_id the referrer_id its
\* referrer has when the user is created (null without a referrer or when the
\* referrer has none), and a referrer_id naming no existing user fails with
\* 'Referrer not found' and creates no user.
C20_SecondaryReferrerSnapshot ==
    [][call'.op = "createUser" =>
        LET r == call'.input.referrer_id
            created == call'.result = "ok"
            row == gwUsers'[call'.id]
        IN /\ created => (Len(gwUsers') = Len(gwUsers) + 1 /\ call'.id = Len(gwUsers'))
           /\ ~created => gwUsers' = gwUsers
           /\ IF r = Null
              THEN created => (row.referrer_id = Null /\ row.secondary_referrer_id = Null)
              ELSE IF r \notin DOMAIN gwUsers
              THEN call'.result = "ReferrerNotFound"
              ELSE created => (/\ row.referrer_id = r
                               /\ row.secondary_referrer_id = gwUsers[r].referrer_id)]_vars

\* C21: once an order exists no later operation changes its total_amount,
\* final_amount or shipping_address, its items' quantity, unit_price or
\* total_price, or the commission_amount and commission_rate of its
\* commissions; only status, payment_status and the commissions' status and
\* paid_at change.
C21_OrderSnapshotFrozen ==
    [][/\ \A o \in DOMAIN orders :
            /\ o \in DOMAIN orders'
            /\ orders'[o] = [orders[o] EXCEPT !.status = orders'[o].status,
                                              !.payment_status = orders'[o].payment_status]
       /\ \A i \in DOMAIN orderItems :
            i \in DOMAIN orderItems' /\ orderItems'[i] = orderItems[i]
       /\ \A c \in DOMAIN commissions :
            /\ c \in DOMAIN commissions'
            /\ commissions'[c] = [commissions[c] EXCEPT !.status = commissions'[c].status,
                                                        !.paid_at = commissions'[c].paid_at]
      ]_vars

\* C21 witness: a cancelled order whose commission keeps a rate the
\* distributor no longer has, and whose address row is gone
C21_Witness ==
    /\ call.op = "updateDistributor" /\ call.changed
    /\ addresses = <<>>
    /\ \E c \in DOMAIN commissions :
        /\ commissions[c].status = "cancelled"
        /\ commissions[c].commission_amount > 0
        /\ orders[commissions[c].order_id].status = "cancelled"
        /\ orders[commissions[c].order_id].shipping_address # ""
        /\ commissions[c].commission_rate
             # distributors[commissions[c].distributor_id].commission_rate

\* the order counts as paid when its status or its payment_status says so
OrderPaid(o) == o.status = "paid" \/ o.payment_status = "paid"

\* C22: in every reachable state of the referral-code variant the commissions
\* mirror their order: a cancelled order has only cancelled commissions, a paid
\* commission belongs to a paid order, and the commissions of an order that is
\* neither paid nor cancelled are pending.
C22_CommissionMirrorsOrder ==
    \A c \in DOMAIN commissions :
        LET o == orders[commissions[c].order_id]
        IN /\ o.status = "cancelled" => commissions[c].status = "cancelled"
           /\ commissions[c].status = "paid" => OrderPaid(o)
           /\ (~OrderPaid(o) /\ o.status # "cancelled") => commissions[c].status = "pending"

\* sum of the amounts of the paid commission rows of distributor d
RECURSIVE PaidTo(_, _)
PaidTo(comms, d) ==
    IF comms = <<>> THEN 0
    ELSE (IF Head(comms).distributor_id = d /\ Head(comms).status = "paid"
          THEN Head(comms).commission_amount ELSE 0)
         + PaidTo(Tail(comms), d)

\* C26: in every reachable state each distributor's total_earnings equals the
\* sum of commission_amount over that distributor's paid commission rows.
C26_EarningsEqualPaidCommissions ==
    \A d \in DOMAIN distributors :
        distributors[d].total_earnings = PaidTo(commissions, d)

\* C27: a commission whose status is cancelled never becomes paid afterwards,
\* and a payCommission call on it credits no distributor.
C27_CancelledCommissionStaysUnpaid ==
    [][\A c \in DOMAIN commissions :
          commissions[c].status = "cancelled" =>
              /\ c \in DOMAIN commissions'
              /\ commissions'[c].status # "paid"
              /\ (call'.op = "payCommission" /\ call'.id = c)
                    => distributors' = distributors]_vars

\* the ordered quantity of product p that still stands: the quantities of its
\* order items whose order is not cancelled
RECURSIVE StandingQuantity(_, _)
StandingQuantity(rows, p) ==
    IF rows = <<>> THEN 0
    ELSE (IF Head(rows).product_id = p /\ orders[Head(rows).order_id].status # "cancelled"
          THEN Head(rows).quantity ELSE 0)
         + StandingQuantity(Tail(rows), p)

\* the stock the catalog starts with
RcInitialStock == <<InitStock, 1, 1>>

\* C25: with no catalog stock edits, after any sequence of createOrder,
\* updateOrderStatus, cancelOrder and processPayment calls every product has
\* stock_quantity + the quantities of its items in orders that are not
\* cancelled = its initial stock_quantity.
C25_StockConservation ==
    \A p \in DOMAIN products :
        products[p].stock_quantity + StandingQuantity(orderItems, p) = RcInitialStock[p]

\* the stock of every product of the graph-walk catalog is what it was before
\* the last call
GwStockUntouched ==
    \A p \in DOMAIN gwProducts : gwProducts[p].stock_quantity = call.before.stock[p]

\* C30: updateInventory on an existing product stores stock_quantity +
\* quantity_change when that is >= 0 (reaching exactly 0 is allowed, a change of
\* 0 keeps the stock) and otherwise fails with an insufficient-inventory error
\* and the stock unchanged; on a nonexistent product it fails with not-found
\* and changes nothing.
C30_UpdateInventoryFloorZero ==
    call.op = "updateInventory" =>
        LET p == call.id
            d == call.input.quantity_change
        IN IF p \notin DOMAIN gwProducts
           THEN call.result = "ProductNotFound" /\ GwStockUntouched
           ELSE IF call.before.stock[p] + d >= 0
           THEN /\ call.result = "ok"
                /\ gwProducts[p].stock_quantity = call.before.stock[p] + d
                /\ \A q \in DOMAIN gwProducts \ {p} :
                      gwProducts[q].stock_quantity = call.before.stock[q]
           ELSE call.result = "InsufficientInventory" /\ GwStockUntouched

\* C30 witness: a negative change that took the stock to exactly 0
C30_Witness ==
    /\ call.op = "updateInventory" /\ call.result = "ok"
    /\ call.input.quantity_change < 0
    /\ call.before.stock[call.id] > 0
    /\ gwProducts[call.id].stock_quantity = 0

\* the quantities ordered by the createOrder calls in flight that succeeded
RECURSIVE SucceededQuantity(_)
SucceededQuantity(P) ==
    IF P = {} THEN 0
    ELSE LET p == CHOOSE x \in P : TRUE
         IN (IF procs[p].op = "createOrder" /\ procs[p].pc = "done"
             THEN procs[p].quantity ELSE 0)
            + SucceededQuantity(P \ {p})

\* the stock of product 1 in the deployed variant
RaceStock ==
    IF variant = "graph-walk" THEN gwProducts[1].stock_quantity
    ELSE products[1].stock_quantity

\* C23: two createOrder calls whose statements interleave never oversell and
\* never lose a decrement: the stock is never negative, and once both calls
\* have ended it is the initial stock minus the quantities of the calls that
\* succeeded.
C23_ConcurrentOrdersKeepStock ==
    /\ RaceStock >= 0
    /\ (\A p \in Procs : procs[p].op = "createOrder" /\ Finished(p))
          => RaceStock = InitStock - SucceededQuantity(Procs)

\* the commission rows of a (distributor, order) pair
PairRows(d, o) ==
    {i \in DOMAIN commissions :
        commissions[i].distributor_id = d /\ commissions[i].order_id = o}

\* C24: two createCommission calls for the same (distributor_id, order_id)
\* pair whose statements interleave leave at most one commission row for the
\* pair, and at most one of them succeeds.
C24_ConcurrentCommissionOncePerPair ==
    \A p, q \in Procs :
        (/\ p # q
         /\ procs[p].op = "createCommission" /\ procs[q].op = "createCommission"
         /\ procs[p].distributor_id = procs[q].distributor_id
         /\ procs[p].order_id = procs[q].order_id)
        => /\ Cardinality(PairRows(procs[p].distributor_id, procs[p].order_id)) <= 1
           /\ ~(procs[p].pc = "done" /\ procs[q].pc = "done")

\* C28: two cancel requests for the same pending order whose statements
\* interleave restore each line item's quantity exactly once in total: once
\* both have ended, every product is back at the stock it had before the order.
C28_ConcurrentCancelRestoresOnce ==
    \A p, q \in Procs :
        (/\ p # q
         /\ procs[p].op = "cancelOrder" /\ procs[q].op = "cancelOrder"
         /\ procs[p].pc = "done" /\ procs[q].pc = "done"
         /\ procs[p].order_id = procs[q].order_id)
        => \A r \in DOMAIN products :
              products[r].stock_quantity + StandingQuantity(orderItems, r)
                  = RcInitialStock[r]

\* C29: payCommission calls whose statements interleave credit correctly: two
\* calls on the same pending commission credit its amount once, two calls on
\* different pending commissions of one distributor credit both amounts.  Once
\* both calls have ended, each distributor's total_earnings is the sum of the
\* amounts of the commissions that became paid.
C29_ConcurrentPayCreditsOnce ==
    (\A p \in Procs : procs[p].op = "payCommission" /\ Finished(p))
        => \A d \in DOMAIN distributors :
              distributors[d].total_earnings = PaidTo(commissions, d)

====
